---- MODULE Spec2Model ----
(***************************************************************************)
(* A model of package fromenv (alfred-landrum/fromenv): Unmarshal walks a  *)
(* struct graph breadth-first and sets every field that carries an "env"   *)
(* tag from a value source, coercing the resolved string to the field's    *)
(* type.                                                                   *)
(*                                                                         *)
(* Strings are sequences of one-character strings.  Memory is a set of     *)
(* cells addressed by paths: <<o>> is allocated object o, <<o, i>> its     *)
(* i-th field, and so on for structs nested by value.  A cell holds a      *)
(* record [s, n, p]: s for string payloads, n for numbers and booleans,    *)
(* p for a pointer's target path (<<>> is nil).  The zero value of every   *)
(* Go type is then the same record.                                        *)
(***************************************************************************)
EXTENDS Integers, Sequences, FiniteSets, TLC

VARIABLES
    decl,      \* the field declarations of the root struct type S
    objType,   \* objType[o]: the type of allocated object o
    heap,      \* heap[path]: the value held by a scalar or pointer cell
    heap0,     \* the memory when Unmarshal was called
    options0,  \* the option arguments Unmarshal was called with
    visits,    \* how many structs visit has entered
    in,        \* the first argument of Unmarshal
    options,   \* the option arguments not yet applied
    osenv,     \* the process environment read by os.LookupEnv
    config,    \* Unmarshal's config: looker and setFuncs
    pc,        \* position in Unmarshal
    q,         \* visit's work queue of reflect.Values
    prev,      \* visit's set of struct Values already visited
    cur,       \* the struct Value whose fields are being processed
    fi,        \* index of the next field of cur to process
    err,       \* the error Unmarshal returns
    calls,     \* log of the calls made to lookers, setters and parsers
    rawTag,    \* a struct tag's "env" value handed to parseTag on its own
    tagOut     \* what parseTag returned for rawTag, once it has

\* what Unmarshal is called with and never writes, and what belongs to a
\* call of parseTag on its own
inputs == <<decl, heap0, options0, in, osenv, rawTag, tagOut>>

vars == <<inputs, objType, heap, visits, options, config, pc, q, prev, cur,
          fi, err, calls>>

----------------------------------------------------------------------------
(* Strings *)

Digits == <<"0", "1", "2", "3", "4", "5", "6", "7", "8", "9">>

IsDigit(c) == \E i \in 1..10 : Digits[i] = c

DigitVal(c) == (CHOOSE i \in 1..10 : Digits[i] = c) - 1

RECURSIVE DecVal(_)
DecVal(s) ==
    IF s = <<>> THEN 0
    ELSE 10 * DecVal(SubSeq(s, 1, Len(s) - 1)) + DigitVal(s[Len(s)])

AllDigits(s) == s # <<>> /\ \A i \in 1..Len(s) : IsDigit(s[i])

\* strings.Index(s, sep) for a one-character sep: 0 when sep does not occur
IndexOf(s, c) ==
    IF \E i \in 1..Len(s) : s[i] = c
    THEN CHOOSE i \in 1..Len(s) : s[i] = c /\ \A j \in 1..(i - 1) : s[j] # c
    ELSE 0

----------------------------------------------------------------------------
(* Tags *)

tagSep == "="

\* A *string: nil, or a pointer to s
NilStr == [ok |-> FALSE, s |-> <<>>]
PtrStr(s) == [ok |-> TRUE, s |-> s]

\* SplitN2, were the tag split at its last separator
SplitAtLast(tag) ==
    LET is == {i \in 1..Len(tag) : tag[i] = tagSep} IN
    IF is = {} THEN <<tag>>
    ELSE LET i == CHOOSE j \in is : \A k \in is : k <= j IN
         <<SubSeq(tag, 1, i - 1), SubSeq(tag, i + 1, Len(tag))>>

\* strings.SplitN(tag, tagSep, 2)
SplitN2(tag) ==
    LET i == IndexOf(tag, tagSep) IN
    IF i = 0 THEN <<tag>>
    ELSE <<SubSeq(tag, 1, i - 1), SubSeq(tag, i + 1, Len(tag))>>

\* parseTag: the key and the possible default encoded in the field's tag
parseTag(tag) ==
    LET s == SplitN2(tag) IN
    IF Len(s) = 1 THEN [key |-> s[1], defval |-> NilStr]
    ELSE [key |-> s[1], defval |-> PtrStr(s[2])]

\* parseTag has not returned
NoTag == [done |-> FALSE, key |-> <<>>, defval |-> NilStr]

----------------------------------------------------------------------------
(* Types.  A type is [base, ptr]: ptr counts the leading stars.            *)

T(b) == [base |-> b, ptr |-> 0]
PtrTo(t) == [t EXCEPT !.ptr = @ + 1]
Elem(t) == [t EXCEPT !.ptr = @ - 1]

\* The struct types declared beside S: N and M nest annotated fields,
\* testSetIface is the test's type with a Set(string) error method.
FieldsOfN ==
    <<[name |-> "X", exported |-> TRUE, tag |-> <<"b", "=", "5">>,
       typ |-> T("int8")]>>

FieldsOfM ==
    <<[name |-> "In", exported |-> TRUE, tag |-> <<>>, typ |-> T("N")],
      [name |-> "Z", exported |-> TRUE, tag |-> <<"a", "=", "d">>,
       typ |-> T("string")]>>

FieldsOfTestSetIface ==
    <<[name |-> "x", exported |-> FALSE, tag |-> <<>>, typ |-> T("bool")]>>

StructBases == {"S", "N", "M", "testSetIface"}

\* reflect.Type.Kind
Kind(t) ==
    IF t.ptr > 0 THEN "ptr"
    ELSE CASE t.base = "string" -> "string"
           [] t.base = "int8" -> "int8"
           [] t.base = "uint8" -> "uint8"
           [] t.base = "bool" -> "bool"
           [] t.base = "Duration" -> "int64"
           [] t.base = "Level" -> "uint8"
           [] t.base = "interface {}" -> "interface"
           [] t.base \in StructBases -> "struct"
           [] OTHER -> "invalid"

\* reflect.Type.Bits for the integer kinds
Bits(t) ==
    CASE Kind(t) = "int8" -> 8
      [] Kind(t) = "uint8" -> 8
      [] Kind(t) = "int64" -> 64
      [] OTHER -> 0

\* structType.NumField / structType.Field(i), given S's declaration d
Fields(d, b) ==
    CASE b = "S" -> d
      [] b = "N" -> FieldsOfN
      [] b = "M" -> FieldsOfM
      [] b = "testSetIface" -> FieldsOfTestSetIface
      [] OTHER -> <<>>

\* The cells an object of type t laid out at path p is made of
RECURSIVE LeafPaths(_, _, _)
LeafPaths(d, t, p) ==
    IF Kind(t) = "struct"
    THEN UNION {LeafPaths(d, Fields(d, t.base)[i].typ, Append(p, i)) :
                    i \in 1..Len(Fields(d, t.base))}
    ELSE {p}

\* A cell's contents; the zero value of every type is ZeroVal
ZeroVal == [s |-> <<>>, n |-> 0, p |-> <<>>]
StrVal(s) == [s |-> s, n |-> 0, p |-> <<>>]
NumVal(n) == [s |-> <<>>, n |-> n, p |-> <<>>]
PtrVal(p) == [s |-> <<>>, n |-> 0, p |-> p]

----------------------------------------------------------------------------
(* Errors: msg is the text, num the string a parser or setter complained  *)
(* about, typ the type an unsupported-type error names.                    *)

NoType == [base |-> "", ptr |-> 0]
NoErr == [msg |-> "", num |-> <<>>, typ |-> NoType]
Err(m) == [msg |-> m, num |-> <<>>, typ |-> NoType]
NumError(m, s) == [msg |-> m, num |-> s, typ |-> NoType]
TypeError(m, t) == [msg |-> m, num |-> <<>>, typ |-> t]

----------------------------------------------------------------------------
(* strconv, as setValue uses it; the result is [v, e]: the value the       *)
(* parser returns beside its error.  Base prefixes and underscores are     *)
(* not modelled: inputs are decimal.                                       *)

\* n fits in bits bits; model integers are 32 bits wide, and a
\* width of 31 bits or more holds every number the model's strings spell
FitsBits(n, bits) == bits >= 31 \/ n <= 2 ^ bits - 1

MaxOfBits(bits) == IF bits >= 31 THEN 2147483647 ELSE 2 ^ bits - 1

\* ParseInt, were a number too wide for the field wrapped into its width
ParseIntWrap(s, bits) ==
    LET neg == s # <<>> /\ s[1] = "-"
        signed == s # <<>> /\ s[1] \in {"+", "-"}
        body == IF signed THEN Tail(s) ELSE s
        mag == DecVal(body)
        n == IF neg THEN 0 - mag ELSE mag
        half == MaxOfBits(bits - 1) + 1
    IN IF ~AllDigits(body)
       THEN [v |-> 0, e |-> "strconv.ParseInt: invalid syntax"]
       ELSE [v |-> ((n + half) % (2 * half)) - half, e |-> ""]

ParseInt(s, bits) ==
    LET neg == s # <<>> /\ s[1] = "-"
        signed == s # <<>> /\ s[1] \in {"+", "-"}
        body == IF signed THEN Tail(s) ELSE s
        mag == DecVal(body)
    IN IF ~AllDigits(body)
       THEN [v |-> 0, e |-> "strconv.ParseInt: invalid syntax"]
       ELSE IF ~neg /\ ~FitsBits(mag, bits - 1)
       THEN [v |-> MaxOfBits(bits - 1),
             e |-> "strconv.ParseInt: value out of range"]
       ELSE IF neg /\ ~FitsBits(mag - 1, bits - 1)
       THEN [v |-> 0 - MaxOfBits(bits - 1) - 1,
             e |-> "strconv.ParseInt: value out of range"]
       ELSE [v |-> IF neg THEN 0 - mag ELSE mag, e |-> ""]

ParseUint(s, bits) ==
    IF ~AllDigits(s)
    THEN [v |-> 0, e |-> "strconv.ParseUint: invalid syntax"]
    ELSE IF ~FitsBits(DecVal(s), bits)
    THEN [v |-> MaxOfBits(bits), e |-> "strconv.ParseUint: value out of range"]
    ELSE [v |-> DecVal(s), e |-> ""]

TrueStrs == {<<"1">>, <<"t">>, <<"T">>, <<"T", "R", "U", "E">>,
             <<"t", "r", "u", "e">>, <<"T", "r", "u", "e">>}
FalseStrs == {<<"0">>, <<"f">>, <<"F">>, <<"F", "A", "L", "S", "E">>,
              <<"f", "a", "l", "s", "e">>, <<"F", "a", "l", "s", "e">>}

ParseBool(s) ==
    IF s \in TrueStrs THEN [v |-> 1, e |-> ""]
    ELSE IF s \in FalseStrs THEN [v |-> 0, e |-> ""]
    ELSE [v |-> 0, e |-> "strconv.ParseBool: invalid syntax"]

----------------------------------------------------------------------------
(* The functions the tests hand to Unmarshal *)

\* time.Second, in the unit the model counts durations in
Second == 1000000

\* time.ParseDuration on a count of seconds: "<digits>s", or "0"
ParseDuration(s) ==
    IF s = <<"0">> THEN [v |-> 0, e |-> ""]
    ELSE IF Len(s) >= 2 /\ s[Len(s)] = "s" /\ AllDigits(SubSeq(s, 1, Len(s) - 1))
    THEN [v |-> DecVal(SubSeq(s, 1, Len(s) - 1)) * Second, e |-> ""]
    ELSE [v |-> 0, e |-> "time: invalid duration"]

\* durSetter: x, err := time.ParseDuration(s); *d = x; return err
durSetter(s) == ParseDuration(s)

\* A second function for Duration: it stores the string's length in seconds
lenSetter(s) == [v |-> Len(s) * Second, e |-> ""]

\* A function for Level: it stores 100 plus the string's length
levelSetter(s) == [v |-> 100 + Len(s), e |-> ""]

\* The function value behind a SetFunc argument, called on s
CallFn(impl, s) ==
    CASE impl = "durSetter" -> durSetter(s)
      [] impl = "lenSetter" -> lenSetter(s)
      [] impl = "levelSetter" -> levelSetter(s)
      [] OTHER -> [v |-> 0, e |-> ""]

ASetter == <<"a", "-", "s", "e", "t", "t", "e", "r">>

\* (*testSetIface).Set: the new value of field x, and the error
testSetIfaceSet(x, s) ==
    IF s = ASetter THEN [v |-> 1, e |-> ""]
    ELSE [v |-> x, e |-> "a-failing-setter"]

\* (*Level).Set, of a type Level uint8: it stores the string's length
levelSet(s) == [v |-> Len(s), e |-> ""]

\* whether *t has a method Set(string) error
HasSet(t) == t \in {T("testSetIface"), T("Level")}

\* A SetFunc argument, as reflection sees it
Fn(isFunc, numIn, variadic, numOut, in0, in1, outErr, impl) ==
    [isFunc |-> isFunc, numIn |-> numIn, variadic |-> variadic,
     numOut |-> numOut, in0 |-> in0, in1 |-> in1, outErr |-> outErr,
     impl |-> impl]

NoFn == Fn(FALSE, 0, FALSE, 0, NoType, NoType, FALSE, "")

\* validateSetFunc, were the function's result not checked to be an error
validateSetFuncAnyOut(fn) ==
    IF ~fn.isFunc THEN [ok |-> FALSE, argType |-> NoType]
    ELSE IF ~(fn.numIn = 2 /\ ~fn.variadic /\ fn.numOut = 1)
    THEN [ok |-> FALSE, argType |-> NoType]
    ELSE IF Kind(fn.in0) # "ptr" THEN [ok |-> FALSE, argType |-> NoType]
    ELSE IF fn.in1 # T("string") THEN [ok |-> FALSE, argType |-> NoType]
    ELSE [ok |-> TRUE, argType |-> Elem(fn.in0)]

\* validateSetFunc: ok iff fn is a "func(*T, string) error"; argType is T
validateSetFunc(fn) ==
    IF ~fn.isFunc THEN [ok |-> FALSE, argType |-> NoType]
    ELSE IF ~(fn.numIn = 2 /\ ~fn.variadic /\ fn.numOut = 1)
    THEN [ok |-> FALSE, argType |-> NoType]
    ELSE IF Kind(fn.in0) # "ptr" THEN [ok |-> FALSE, argType |-> NoType]
    ELSE IF fn.in1 # T("string") THEN [ok |-> FALSE, argType |-> NoType]
    ELSE IF ~fn.outErr THEN [ok |-> FALSE, argType |-> NoType]
    ELSE [ok |-> TRUE, argType |-> Elem(fn.in0)]

----------------------------------------------------------------------------
(* Value sources *)

\* A Go map is the set of its <<key, value>> entries
EmptyMap == {}
Has(m, k) == \E e \in m : e[1] = k
Get(m, k) == (CHOOSE e \in m : e[1] = k)[2]
Put(m, k, v) == {e \in m : e[1] # k} \cup {<<k, v>>}

\* v, ok := m[k]
MapLookup(m, k) ==
    IF Has(m, k) THEN [val |-> PtrStr(Get(m, k)), e |-> ""]
    ELSE [val |-> NilStr, e |-> ""]

\* osLookup, over the process environment env
osLookup(env, k) == MapLookup(env, k)

\* config.looker(key): the default osLookup, Map's closure over m, or the
\* caller's function, which fails on the keys in errOn
Lookup(looker, env, k) ==
    IF looker.src = "os" THEN osLookup(env, k)
    ELSE IF k \in looker.errOn THEN [val |-> NilStr, e |-> "lookup error"]
    ELSE MapLookup(looker.m, k)

OsLooker == [src |-> "os", m |-> EmptyMap, errOn |-> {}]

\* Options: Looker(f), Map(m), DefaultsOnly(), SetFunc(fn)
OptLooker(m, errOn) ==
    [opt |-> "Looker", m |-> m, errOn |-> errOn, fn |-> NoFn]
OptMap(m) == [opt |-> "Map", m |-> m, errOn |-> {}, fn |-> NoFn]
OptDefaultsOnly ==
    [opt |-> "DefaultsOnly", m |-> EmptyMap, errOn |-> {}, fn |-> NoFn]
OptSetFunc(fn) == [opt |-> "SetFunc", m |-> EmptyMap, errOn |-> {}, fn |-> fn]

\* The looker an option installs
Looker(o) == [src |-> "func", m |-> o.m, errOn |-> o.errOn]
Map(o) == [src |-> "map", m |-> o.m, errOn |-> {}]
DefaultsOnly == [src |-> "map", m |-> EmptyMap, errOn |-> {}]

----------------------------------------------------------------------------
(* reflect.Value: [typ, addr, ro].  addr is the cell the Value refers to;  *)
(* ro says it was obtained through an unexported field.  The Value made    *)
(* from Unmarshal's argument has addr <<0>> and holds the pointer itself.  *)

ArgAddr == <<0>>

NoValue == [typ |-> NoType, addr |-> <<>>, ro |-> FALSE]

\* reflect.ValueOf(in)
ValueOf(arg) == [typ |-> arg.typ, addr |-> ArgAddr, ro |-> FALSE]

\* the pointer a Value of kind Ptr holds
Pointee(arg, h, v) == IF v.addr = ArgAddr THEN arg.p ELSE h[v.addr].p

IsNil(arg, h, v) == Pointee(arg, h, v) = <<>>

\* v.Elem() of a non-nil pointer: addressable, read-only iff v is
ElemOf(arg, h, v) ==
    [typ |-> Elem(v.typ), addr |-> Pointee(arg, h, v), ro |-> v.ro]

\* structPtr.Field(i), f the i-th field's declaration
FieldOf(st, i, f) ==
    [typ |-> f.typ, addr |-> Append(st.addr, i), ro |-> st.ro \/ ~f.exported]

CanSet(v) == ~v.ro

\* isStructPtr without its nil check
isStructPtrNoNilCheck(arg) ==
    Kind(arg.typ) = "ptr" /\ Kind(Elem(arg.typ)) = "struct"

isStructPtr(arg) ==
    IF Kind(arg.typ) = "ptr" /\ arg.p # <<>>
    THEN Kind(Elem(arg.typ)) = "struct"
    ELSE FALSE

\* settableStructPtr, were only the argument dereferenced and a pointer
\* field never followed
settableStructPtrNoFollow(arg, h, v) ==
    LET v1 == IF Kind(v.typ) = "ptr" /\ ~IsNil(arg, h, v) /\ v.addr = ArgAddr
              THEN ElemOf(arg, h, v) ELSE v
    IN IF Kind(v1.typ) = "struct"
       THEN [st |-> v1, ok |-> CanSet(v1)]
       ELSE [st |-> NoValue, ok |-> FALSE]

\* settableStructPtr, were a struct taken whether settable or not
settableStructPtrAny(arg, h, v) ==
    LET v1 == IF Kind(v.typ) = "ptr" /\ ~IsNil(arg, h, v)
              THEN ElemOf(arg, h, v) ELSE v
    IN IF Kind(v1.typ) = "struct"
       THEN [st |-> v1, ok |-> TRUE]
       ELSE [st |-> NoValue, ok |-> FALSE]

settableStructPtr(arg, h, v) ==
    LET v1 == IF Kind(v.typ) = "ptr" /\ ~IsNil(arg, h, v)
              THEN ElemOf(arg, h, v) ELSE v
    IN IF Kind(v1.typ) = "struct"
       THEN [st |-> v1, ok |-> CanSet(v1)]
       ELSE [st |-> NoValue, ok |-> FALSE]

----------------------------------------------------------------------------
(* setValue(cfg, value, str), on the memory (ot, h) with S declared as d.  *)
(* The result holds the memory afterwards, the error returned, whether     *)
(* reflection panicked, and which strategy set the value.                  *)

SetResult(ot, h, e, how) ==
    [ot |-> ot, h |-> h, e |-> e, panic |-> FALSE, how |-> how]

ParseErr(r, str) == IF r.e = "" THEN NoErr ELSE NumError(r.e, str)

\* setBuiltin, were the value stored only when the parser returns no error
setBuiltinKeepOnError(ot, h, v, str) ==
    LET k == Kind(v.typ)
        r == CASE k \in {"int8", "int64"} -> ParseInt(str, Bits(v.typ))
               [] k = "uint8" -> ParseUint(str, Bits(v.typ))
               [] k = "bool" -> ParseBool(str)
               [] OTHER -> [v |-> 0, e |-> ""]
        how == CASE k \in {"int8", "int64"} -> "ParseInt"
                 [] k = "uint8" -> "ParseUint"
                 [] k = "bool" -> "ParseBool"
                 [] OTHER -> "unsupported"
    IN CASE k = "string" ->
              SetResult(ot, [h EXCEPT ![v.addr] = StrVal(str)], NoErr, "string")
         [] k \in {"int8", "int64", "uint8", "bool"} ->
              SetResult(ot, IF r.e = "" THEN [h EXCEPT ![v.addr] = NumVal(r.v)]
                            ELSE h,
                        ParseErr(r, str), how)
         [] OTHER ->
              SetResult(ot, h, TypeError("unsupported type", v.typ), how)

\* the switch on value.Kind() at the end of setValue
setBuiltin(ot, h, v, str) ==
    LET k == Kind(v.typ) IN
    CASE k = "string" ->
           SetResult(ot, [h EXCEPT ![v.addr] = StrVal(str)], NoErr, "string")
      [] k \in {"int8", "int64"} ->
           LET r == ParseInt(str, Bits(v.typ)) IN
           SetResult(ot, [h EXCEPT ![v.addr] = NumVal(r.v)],
                     ParseErr(r, str), "ParseInt")
      [] k = "uint8" ->
           LET r == ParseUint(str, Bits(v.typ)) IN
           SetResult(ot, [h EXCEPT ![v.addr] = NumVal(r.v)],
                     ParseErr(r, str), "ParseUint")
      [] k = "bool" ->
           LET r == ParseBool(str) IN
           SetResult(ot, [h EXCEPT ![v.addr] = NumVal(r.v)],
                     ParseErr(r, str), "ParseBool")
      [] OTHER ->
           SetResult(ot, h, TypeError("unsupported type", v.typ), "unsupported")

\* setDeref, were the type's Set method tried before the custom functions
setDerefSetFirst(cfg, ot, h, v, str) ==
    IF ~CanSet(v)
    THEN SetResult(ot, h, Err("unsettable field"), "unsettable")
    ELSE IF HasSet(v.typ)
    THEN LET x == IF v.typ = T("Level") THEN v.addr ELSE Append(v.addr, 1)
             r == IF v.typ = T("Level") THEN levelSet(str)
                  ELSE testSetIfaceSet(h[x].n, str)
         IN SetResult(ot, [h EXCEPT ![x] = NumVal(r.v)], ParseErr(r, str),
                      "Set")
    ELSE IF Has(cfg.setFuncs, v.typ)
    THEN LET r == CallFn(Get(cfg.setFuncs, v.typ), str) IN
         SetResult(ot, [h EXCEPT ![v.addr] = NumVal(r.v)], ParseErr(r, str),
                   Get(cfg.setFuncs, v.typ))
    ELSE setBuiltin(ot, h, v, str)

\* setValue from the settability check on, value already dereferenced
setDeref(cfg, ot, h, v, str) ==
    IF ~CanSet(v)
    THEN SetResult(ot, h, Err("unsettable field"), "unsettable")
    ELSE IF Has(cfg.setFuncs, v.typ)
    THEN LET r == CallFn(Get(cfg.setFuncs, v.typ), str) IN
         SetResult(ot, [h EXCEPT ![v.addr] = NumVal(r.v)], ParseErr(r, str),
                   Get(cfg.setFuncs, v.typ))
    ELSE IF HasSet(v.typ)
    THEN LET x == IF v.typ = T("Level") THEN v.addr ELSE Append(v.addr, 1)
             r == IF v.typ = T("Level") THEN levelSet(str)
                  ELSE testSetIfaceSet(h[x].n, str)
         IN SetResult(ot, [h EXCEPT ![x] = NumVal(r.v)], ParseErr(r, str),
                      "Set")
    ELSE setBuiltin(ot, h, v, str)

\* setValue, were a pointer given a fresh pointee whether nil or not
setValueAlwaysNew(cfg, d, ot, h, value, str) ==
    LET ptr == Kind(value.typ) = "ptr"
        n == Len(ot) + 1
        new == LeafPaths(d, Elem(value.typ), <<n>>)
        ot1 == IF ptr THEN Append(ot, Elem(value.typ)) ELSE ot
        h1 == IF ptr
              THEN [p \in DOMAIN h \cup new |->
                       IF p = value.addr THEN PtrVal(<<n>>)
                       ELSE IF p \in DOMAIN h THEN h[p] ELSE ZeroVal]
              ELSE h
        v == IF ptr
             THEN [typ |-> Elem(value.typ), addr |-> <<n>>, ro |-> value.ro]
             ELSE value
    IN IF ptr /\ ~CanSet(value)
       THEN [ot |-> ot, h |-> h, e |-> NoErr, panic |-> TRUE, how |-> "panic"]
       ELSE setDeref(cfg, ot1, h1, v, str)

\* setValue, were a custom function registered for a pointer type looked
\* up for a field declared with that type before the pointer is followed
setValueDeclaredType(cfg, d, ot, h, value, str) ==
    LET ptr == Kind(value.typ) = "ptr"
        nil == ptr /\ h[value.addr].p = <<>>
        n == Len(ot) + 1
        new == LeafPaths(d, Elem(value.typ), <<n>>)
        ot1 == IF nil THEN Append(ot, Elem(value.typ)) ELSE ot
        h1 == IF nil
              THEN [p \in DOMAIN h \cup new |->
                       IF p = value.addr THEN PtrVal(<<n>>)
                       ELSE IF p \in DOMAIN h THEN h[p] ELSE ZeroVal]
              ELSE h
        v == IF ptr
             THEN [typ |-> Elem(value.typ), addr |-> h1[value.addr].p,
                   ro |-> value.ro]
             ELSE value
    IN IF ptr /\ CanSet(value) /\ Has(cfg.setFuncs, value.typ)
       THEN SetResult(ot1, h1, NoErr, Get(cfg.setFuncs, value.typ))
       ELSE IF nil /\ ~CanSet(value)
       THEN [ot |-> ot, h |-> h, e |-> NoErr, panic |-> TRUE, how |-> "panic"]
       ELSE setDeref(cfg, ot1, h1, v, str)

setValue(cfg, d, ot, h, value, str) ==
    LET ptr == Kind(value.typ) = "ptr"
        nil == ptr /\ h[value.addr].p = <<>>
        n == Len(ot) + 1
        new == LeafPaths(d, Elem(value.typ), <<n>>)
        ot1 == IF nil THEN Append(ot, Elem(value.typ)) ELSE ot
        h1 == IF nil
              THEN [p \in DOMAIN h \cup new |->
                       IF p = value.addr THEN PtrVal(<<n>>)
                       ELSE IF p \in DOMAIN h THEN h[p] ELSE ZeroVal]
              ELSE h
        v == IF ptr
             THEN [typ |-> Elem(value.typ), addr |-> h1[value.addr].p,
                   ro |-> value.ro]
             ELSE value
    IN IF nil /\ ~CanSet(value)
       THEN [ot |-> ot, h |-> h, e |-> NoErr, panic |-> TRUE, how |-> "panic"]
       ELSE setDeref(cfg, ot1, h1, v, str)

----------------------------------------------------------------------------
(* Unmarshal's result *)

NoError ==
    [msg |-> "", num |-> <<>>, typ |-> NoType, field |-> "", kind |-> "",
     struct |-> ""]

\* errors.New("passed non-pointer or nil pointer")
InvalidInput ==
    [msg |-> "passed non-pointer or nil pointer", num |-> <<>>,
     typ |-> NoType, field |-> "", kind |-> "", struct |-> ""]

\* unmarshalError, were the error returned as the source gave it
unmarshalErrorBare(e, st, f) ==
    [msg |-> e.msg, num |-> e.num, typ |-> e.typ, field |-> "", kind |-> "",
     struct |-> ""]

\* &unmarshalError{err, c}, as its Error method renders it
unmarshalError(e, st, f) ==
    [msg |-> e.msg, num |-> e.num, typ |-> e.typ, field |-> f.name,
     kind |-> Kind(f.typ), struct |-> st.typ.base]

\* Resolve, were the tag's default to win over the source's value
ResolveDefaultFirst(val, defval) == IF defval.ok THEN defval ELSE val

\* Resolve, were a tag without default to stand for an empty default
ResolveEmptyDefault(val, defval) == IF val.ok THEN val ELSE PtrStr(defval.s)

\* if val == nil { if defval == nil { return nil }; val = defval }
Resolve(val, defval) == IF val.ok THEN val ELSE defval

\* visitor, were a tag with an empty key looked up like any other
visitorAnyKey(cfg, env, d, ot, h, st, i) ==
    LET f == Fields(d, st.typ.base)[i]
        value == FieldOf(st, i, f)
        tag == parseTag(f.tag)
        lk == Lookup(cfg.looker, env, tag.key)
        looked == <<[op |-> "lookup", s |-> tag.key, at |-> value.addr]>>
        val == Resolve(lk.val, tag.defval)
        r == CHOOSE x \in {setValue(cfg, d, ot, h, value, s) : s \in {val.s}} :
                 TRUE
        same == [ot |-> ot, h |-> h, err |-> NoError, panic |-> FALSE]
    IN IF lk.e # ""
       THEN [same EXCEPT !.err = unmarshalError(Err(lk.e), st, f)]
                @@ [log |-> looked]
       ELSE IF ~val.ok THEN same @@ [log |-> looked]
       ELSE [ot |-> r.ot, h |-> r.h, panic |-> r.panic,
             err |-> IF r.e = NoErr THEN NoError
                     ELSE unmarshalError(r.e, st, f),
             log |-> Append(looked,
                            [op |-> r.how, s |-> val.s, at |-> value.addr])]

\* The visitor Unmarshal hands to visit, on the cursor (st, i): the memory
\* afterwards, the returned error, and the calls it made.  setValue gets
\* the string *val by value.
visitor(cfg, env, d, ot, h, st, i) ==
    LET f == Fields(d, st.typ.base)[i]
        value == FieldOf(st, i, f)
        tag == parseTag(f.tag)
        lk == Lookup(cfg.looker, env, tag.key)
        looked == <<[op |-> "lookup", s |-> tag.key, at |-> value.addr]>>
        val == Resolve(lk.val, tag.defval)
        r == CHOOSE x \in {setValue(cfg, d, ot, h, value, s) : s \in {val.s}} :
                 TRUE
        same == [ot |-> ot, h |-> h, err |-> NoError, panic |-> FALSE]
    IN IF Len(tag.key) = 0 THEN same @@ [log |-> <<>>]
       ELSE IF lk.e # ""
       THEN [same EXCEPT !.err = unmarshalError(Err(lk.e), st, f)]
                @@ [log |-> looked]
       ELSE IF ~val.ok THEN same @@ [log |-> looked]
       ELSE [ot |-> r.ot, h |-> r.h, panic |-> r.panic,
             err |-> IF r.e = NoErr THEN NoError
                     ELSE unmarshalError(r.e, st, f),
             log |-> Append(looked,
                            [op |-> r.how, s |-> val.s, at |-> value.addr])]

----------------------------------------------------------------------------
(* Unmarshal as a state machine *)

\* if !isStructPtr(in) { return errors.New(...) }; config := &config{...}
Enter ==
    /\ pc = "start"
    /\ IF ~isStructPtr(in)
       THEN /\ pc' = "done"
            /\ err' = InvalidInput
            /\ UNCHANGED config
       ELSE /\ pc' = "options"
            /\ config' = [looker |-> OsLooker, setFuncs |-> EmptyMap]
            /\ UNCHANGED err
    /\ UNCHANGED <<inputs, objType, heap, visits, options, q, prev, cur, fi,
                   calls>>

\* Configure, were Map to add its entries to the source given before
ConfigureMerge(c, o) ==
    CASE o.opt = "Looker" -> [c EXCEPT !.looker = Looker(o)]
      [] o.opt = "Map" ->
           [c EXCEPT !.looker =
                [src |-> "map",
                 m |-> o.m \cup {e \in c.looker.m : ~Has(o.m, e[1])},
                 errOn |-> {}]]
      [] o.opt = "DefaultsOnly" -> [c EXCEPT !.looker = DefaultsOnly]
      [] o.opt = "SetFunc" ->
           [c EXCEPT !.setFuncs =
                Put(@, validateSetFunc(o.fn).argType, o.fn.impl)]

\* Configure, were DefaultsOnly to leave the looker as it is
ConfigureDefaultsNoOp(c, o) ==
    CASE o.opt = "Looker" -> [c EXCEPT !.looker = Looker(o)]
      [] o.opt = "Map" -> [c EXCEPT !.looker = Map(o)]
      [] o.opt = "DefaultsOnly" -> c
      [] o.opt = "SetFunc" ->
           [c EXCEPT !.setFuncs =
                Put(@, validateSetFunc(o.fn).argType, o.fn.impl)]

\* the configuration after option(config); SetFunc panics on a bad function
Configure(c, o) ==
    CASE o.opt = "Looker" -> [c EXCEPT !.looker = Looker(o)]
      [] o.opt = "Map" -> [c EXCEPT !.looker = Map(o)]
      [] o.opt = "DefaultsOnly" -> [c EXCEPT !.looker = DefaultsOnly]
      [] o.opt = "SetFunc" ->
           [c EXCEPT !.setFuncs =
                Put(@, validateSetFunc(o.fn).argType, o.fn.impl)]

\* for _, option := range options { option(config) }
ApplyOption ==
    /\ pc = "options"
    /\ options # <<>>
    /\ LET o == Head(options) IN
       IF o.opt = "SetFunc" /\ ~validateSetFunc(o.fn).ok
       THEN pc' = "panic" /\ UNCHANGED config
       ELSE config' = Configure(config, o) /\ UNCHANGED pc
    /\ options' = Tail(options)
    /\ UNCHANGED <<inputs, objType, heap, visits, q, prev, cur, fi, err,
                   calls>>

\* visit: prev := make(map...); q := []reflect.Value{reflect.ValueOf(in)}
BeginVisit ==
    /\ pc = "options"
    /\ options = <<>>
    /\ pc' = "visit"
    /\ q' = <<ValueOf(in)>>
    /\ prev' = {}
    /\ UNCHANGED <<inputs, objType, heap, visits, options, config, cur, fi,
                   err, calls>>

\* prev, were it keyed by the struct's type
InPrevByType(st, seen) == \E s \in seen : s.typ = st.typ

\* prev, were nothing ever found in it
InPrevNever(st, seen) == FALSE

\* _, inPrev := prev[structPtr]
InPrev(st, seen) == st \in seen

\* the head of the queue is no settable struct, or one visited before
Skip ==
    /\ pc = "visit"
    /\ q # <<>>
    /\ LET s == settableStructPtr(in, heap, Head(q)) IN
       ~s.ok \/ InPrev(s.st, prev)
    /\ q' = Tail(q)
    /\ UNCHANGED <<inputs, objType, heap, visits, options, config, pc, prev,
                   cur, fi, err, calls>>

\* the head of the queue is a struct to visit
EnterStruct ==
    /\ pc = "visit"
    /\ q # <<>>
    /\ LET s == settableStructPtr(in, heap, Head(q)) IN
       /\ s.ok
       /\ ~InPrev(s.st, prev)
       /\ prev' = prev \cup {s.st}
       /\ visits' = visits + 1
       /\ IF Len(Fields(decl, s.st.typ.base)) = 0
          THEN q' = Tail(q) /\ UNCHANGED <<pc, cur, fi>>
          ELSE /\ pc' = "fields"
               /\ cur' = s.st
               /\ fi' = 1
               /\ UNCHANGED q
    /\ UNCHANGED <<inputs, objType, heap, options, config, err, calls>>

\* VisitField, were the loop to note the visitor's error and go on
VisitFieldKeepGoing ==
    /\ pc = "fields"
    /\ \E r \in {visitor(config, osenv, decl, objType, heap, cur, fi)} :
       LET fs == Fields(decl, cur.typ.base)
           value == FieldOf(cur, fi, fs[fi])
       IN /\ calls' = calls \o r.log
          /\ objType' = r.ot
          /\ heap' = r.h
          /\ err' = IF r.err # NoError /\ err = NoError THEN r.err ELSE err
          /\ IF r.panic
             THEN pc' = "panic" /\ UNCHANGED <<q, fi>>
             ELSE IF fi = Len(fs)
             THEN /\ pc' = "visit"
                  /\ q' = Tail(Append(q, value))
                  /\ UNCHANGED fi
             ELSE /\ q' = Append(q, value)
                  /\ fi' = fi + 1
                  /\ UNCHANGED pc
    /\ UNCHANGED <<inputs, visits, options, config, prev, cur>>

\* VisitField, were a nil pointer to a struct given a fresh struct to
\* descend into
VisitFieldAllocNil ==
    /\ pc = "fields"
    /\ \E r \in {visitor(config, osenv, decl, objType, heap, cur, fi)} :
       LET fs == Fields(decl, cur.typ.base)
           value == FieldOf(cur, fi, fs[fi])
           nil == /\ Kind(value.typ) = "ptr"
                  /\ Kind(Elem(value.typ)) = "struct"
                  /\ CanSet(value)
                  /\ r.h[value.addr].p = <<>>
           n == Len(r.ot) + 1
           new == LeafPaths(decl, Elem(value.typ), <<n>>)
       IN /\ calls' = calls \o r.log
          /\ objType' = IF nil THEN Append(r.ot, Elem(value.typ)) ELSE r.ot
          /\ heap' = IF nil
                     THEN [p \in DOMAIN r.h \cup new |->
                              IF p = value.addr THEN PtrVal(<<n>>)
                              ELSE IF p \in DOMAIN r.h THEN r.h[p]
                              ELSE ZeroVal]
                     ELSE r.h
          /\ IF r.panic
             THEN pc' = "panic" /\ UNCHANGED <<q, fi, err>>
             ELSE IF r.err # NoError
             THEN pc' = "done" /\ err' = r.err /\ UNCHANGED <<q, fi>>
             ELSE IF fi = Len(fs)
             THEN /\ pc' = "visit"
                  /\ q' = Tail(Append(q, value))
                  /\ UNCHANGED <<fi, err>>
             ELSE /\ q' = Append(q, value)
                  /\ fi' = fi + 1
                  /\ UNCHANGED <<pc, err>>
    /\ UNCHANGED <<inputs, visits, options, config, prev, cur>>

\* VisitField, were the field's value put next in line instead of last
VisitFieldDepthFirst ==
    /\ pc = "fields"
    /\ \E r \in {visitor(config, osenv, decl, objType, heap, cur, fi)} :
       LET fs == Fields(decl, cur.typ.base)
           value == FieldOf(cur, fi, fs[fi])
       IN /\ calls' = calls \o r.log
          /\ objType' = r.ot
          /\ heap' = r.h
          /\ IF r.panic
             THEN pc' = "panic" /\ UNCHANGED <<q, fi, err>>
             ELSE IF r.err # NoError
             THEN pc' = "done" /\ err' = r.err /\ UNCHANGED <<q, fi>>
             ELSE IF fi = Len(fs)
             THEN /\ pc' = "visit"
                  /\ q' = <<value>> \o Tail(q)
                  /\ UNCHANGED <<fi, err>>
             ELSE /\ q' = <<Head(q), value>> \o Tail(q)
                  /\ fi' = fi + 1
                  /\ UNCHANGED <<pc, err>>
    /\ UNCHANGED <<inputs, visits, options, config, prev, cur>>

\* one turn of the loop over the fields of cur: the visitor, then
\* q = append(q, value); after the last field the loop head pops the queue
VisitField ==
    /\ pc = "fields"
    /\ \E r \in {visitor(config, osenv, decl, objType, heap, cur, fi)} :
       LET fs == Fields(decl, cur.typ.base)
           value == FieldOf(cur, fi, fs[fi])
       IN /\ calls' = calls \o r.log
          /\ objType' = r.ot
          /\ heap' = r.h
          /\ IF r.panic
             THEN pc' = "panic" /\ UNCHANGED <<q, fi, err>>
             ELSE IF r.err # NoError
             THEN pc' = "done" /\ err' = r.err /\ UNCHANGED <<q, fi>>
             ELSE IF fi = Len(fs)
             THEN /\ pc' = "visit"
                  /\ q' = Tail(Append(q, value))
                  /\ UNCHANGED <<fi, err>>
             ELSE /\ q' = Append(q, value)
                  /\ fi' = fi + 1
                  /\ UNCHANGED <<pc, err>>
    /\ UNCHANGED <<inputs, visits, options, config, prev, cur>>

\* the queue is empty: return nil
Return ==
    /\ pc = "visit"
    /\ q = <<>>
    /\ pc' = "done"
    /\ err' = NoError
    /\ UNCHANGED <<inputs, objType, heap, visits, options, config, q, prev,
                   cur, fi, calls>>

Next ==
    \/ Enter
    \/ ApplyOption
    \/ BeginVisit
    \/ Skip
    \/ EnterStruct
    \/ VisitField
    \/ Return

----------------------------------------------------------------------------
(* Inputs *)

MaxFields == 2
MaxOptions == 2

KA == <<"a">>
KB == <<"b">>

D(exported, tag, typ) == [exported |-> exported, tag |-> tag, typ |-> typ]

\* Field declarations of S without pointers to or nested structs
FlatMenu ==
    {D(TRUE, <<"a">>, T("string")),
     D(TRUE, <<"a", "=", "d">>, T("string")),
     D(TRUE, <<"=", "d">>, T("string")),
     D(FALSE, <<"a">>, T("string")),
     D(FALSE, <<>>, T("int8")),
     D(TRUE, <<"b", "=", "5">>, T("int8")),
     D(TRUE, <<"b">>, T("uint8")),
     D(TRUE, <<"a">>, T("bool")),
     D(TRUE, <<"a">>, T("interface {}")),
     D(TRUE, <<"a">>, T("testSetIface")),
     D(TRUE, <<"b">>, T("Duration")),
     D(TRUE, <<"b">>, T("Level")),
     D(TRUE, <<"a">>, PtrTo(T("string"))),
     D(FALSE, <<"a", "=", "d">>, PtrTo(T("string"))),
     D(FALSE, <<"=", "d">>, T("interface {}")),
     D(TRUE, <<"b">>, PtrTo(T("Duration")))}

\* Field declarations of S that make a graph of structs
GraphMenu ==
    {D(TRUE, <<"a", "=", "d">>, T("string")),
     D(TRUE, <<>>, PtrTo(T("S"))),
     D(TRUE, <<>>, T("N")),
     D(FALSE, <<>>, T("M")),
     D(TRUE, <<>>, PtrTo(T("N"))),
     D(TRUE, <<>>, T("M"))}

UpperNames == <<"F1", "F2", "F3", "F4">>
LowerNames == <<"f1", "f2", "f3", "f4">>

\* The declaration of S made of the menu entries ds, named by position
Declare(ds) ==
    [i \in 1..Len(ds) |->
        [name |-> IF ds[i].exported THEN UpperNames[i] ELSE LowerNames[i],
         exported |-> ds[i].exported, tag |-> ds[i].tag, typ |-> ds[i].typ]]

SeqsUpTo(S, n) == UNION {[1..k -> S] : k \in 0..n}

\* the fields of a flat S differ from each other
FlatDecls ==
    {Declare(ds) :
        ds \in {s \in SeqsUpTo(FlatMenu, MaxFields) \ {<<>>} :
                   \A i, j \in 1..Len(s) : s[i] = s[j] => i = j}}

GraphDecls == {Declare(ds) : ds \in SeqsUpTo(GraphMenu, MaxFields) \ {<<>>}}

OptionDecls ==
    {Declare(<<D(TRUE, <<"a", "=", "d">>, T("string")),
               D(TRUE, <<"b">>, T("Duration"))>>),
     Declare(<<D(TRUE, <<"b", "=", "5">>, T("int8")),
               D(TRUE, <<"a">>, T("string"))>>),
     <<>>}

\* What a source can hold for a key
ValsA == {<<"1">>, ASetter}
ValsB == {<<"7">>, <<"5", "s">>}

MapsOver(K) ==
    {m \in SUBSET (((K \cap {KA}) \X ValsA) \cup ((K \cap {KB}) \X ValsB)) :
        \A e1, e2 \in m : e1[1] = e2[1] => e1 = e2}

Maps == MapsOver({KA, KB})

\* the maps handed to the traversal of a graph
GraphMaps ==
    {EmptyMap, {<<KA, <<"1">>>>, <<KB, <<"7">>>>}, {<<KB, <<"5", "s">>>>}}

OsEnvs == {EmptyMap, {<<KA, <<"1">>>>, <<KB, <<"7">>>>}}

durFn ==
    Fn(TRUE, 2, FALSE, 1, PtrTo(T("Duration")), T("string"), TRUE, "durSetter")
lenFn ==
    Fn(TRUE, 2, FALSE, 1, PtrTo(T("Duration")), T("string"), TRUE, "lenSetter")

levelFn ==
    Fn(TRUE, 2, FALSE, 1, PtrTo(T("Level")), T("string"), TRUE, "levelSetter")

\* shapes validateSetFunc refuses, from the test's badfuncs: "hello",
\* func(x int, y string) error, func(x *int, y string) int, func(),
\* func(x int) error, func(x *int, y int) error; and a variadic
\* func(x *int, y ...string) error
BadFns ==
    {Fn(FALSE, 0, FALSE, 0, NoType, NoType, FALSE, "bad"),
     Fn(TRUE, 2, FALSE, 1, T("int8"), T("string"), TRUE, "bad"),
     Fn(TRUE, 2, FALSE, 1, PtrTo(T("int8")), T("string"), FALSE, "bad"),
     Fn(TRUE, 0, FALSE, 0, NoType, NoType, FALSE, "bad"),
     Fn(TRUE, 1, FALSE, 1, T("int8"), NoType, TRUE, "bad"),
     Fn(TRUE, 2, FALSE, 1, PtrTo(T("int8")), T("int8"), TRUE, "bad"),
     Fn(TRUE, 2, TRUE, 1, PtrTo(T("int8")), NoType, TRUE, "bad")}

\* a caller's lookup function: it fails on errOn and else reads m
Lookers ==
    {OptLooker(m, errOn) :
        m \in Maps, errOn \in SUBSET {KA, KB}} \cap
    {o \in [opt : {"Looker"}, m : Maps, errOn : SUBSET {KA, KB}, fn : {NoFn}] :
        \A k \in o.errOn : ~Has(o.m, k)}

OptionMenu ==
    {OptMap({<<KA, <<"1">>>>}), OptMap({<<KB, <<"5", "s">>>>}),
     OptDefaultsOnly, OptLooker({<<KA, ASetter>>}, {KB}),
     OptSetFunc(durFn), OptSetFunc(lenFn)}
    \cup {OptSetFunc(f) : f \in BadFns}

\* the value a scalar cell holds before the call: zero, or pre-populated
Prior(t, pre) ==
    IF ~pre THEN ZeroVal
    ELSE CASE Kind(t) = "string" -> StrVal(<<"p">>)
           [] Kind(t) = "ptr" -> ZeroVal
           [] Kind(t) = "interface" -> ZeroVal
           [] OTHER -> NumVal(1)

RECURSIVE TypeUnder(_, _, _)
\* the type of the cell at path p below an object of type t
TypeUnder(d, t, p) ==
    IF p = <<>> THEN t
    ELSE TypeUnder(d, Fields(d, t.base)[Head(p)].typ, Tail(p))

TypeAt(d, ot, p) == TypeUnder(d, ot[p[1]], Tail(p))

Cells(d, ot) == UNION {LeafPaths(d, ot[o], <<o>>) : o \in 1..Len(ot)}

\* the structs in memory: allocated ones and those nested by value
RECURSIVE StructsUnder(_, _, _)
StructsUnder(d, t, p) ==
    IF Kind(t) = "struct"
    THEN {p} \cup UNION {StructsUnder(d, Fields(d, t.base)[i].typ, Append(p, i)) :
                            i \in 1..Len(Fields(d, t.base))}
    ELSE {}

Structs(d, ot) == UNION {StructsUnder(d, ot[o], <<o>>) : o \in 1..Len(ot)}

\* where a pointer cell of type t may point before the call: nowhere, at
\* an allocated object or at a struct nested in one
Targets(d, ot, t) ==
    {<<>>} \cup {<<o>> : o \in {o \in 1..Len(ot) : ot[o] = Elem(t)}}
           \cup {p \in Structs(d, ot) : TypeAt(d, ot, p) = Elem(t)}

InitHeaps(d, ot, pre) ==
    LET cs == Cells(d, ot)
        ptrs == {p \in cs : Kind(TypeAt(d, ot, p)) = "ptr"}
    IN {[p \in cs |-> IF p \in ptrs THEN PtrVal(f[p])
                      ELSE Prior(TypeAt(d, ot, p), pre)] :
           f \in {g \in [ptrs -> Structs(d, ot) \cup {<<>>} \cup
                                    {<<o>> : o \in 1..Len(ot)}] :
                     \A p \in ptrs : g[p] \in Targets(d, ot, TypeAt(d, ot, p))}}

RootArg == [typ |-> PtrTo(T("S")), p |-> <<1>>]

\* arguments isStructPtr refuses: nil, a struct, a nil *S, a *string
BadArgs ==
    {[typ |-> NoType, p |-> <<>>], [typ |-> T("S"), p |-> <<>>],
     [typ |-> PtrTo(T("S")), p |-> <<>>],
     [typ |-> PtrTo(T("string")), p |-> <<2>>]}

InitCommon ==
    /\ rawTag = <<>>
    /\ tagOut = NoTag
    /\ heap0 = heap
    /\ options0 = options
    /\ visits = 0
    /\ pc = "start"
    /\ config = [looker |-> OsLooker, setFuncs |-> EmptyMap]
    /\ q = <<>>
    /\ prev = {}
    /\ cur = NoValue
    /\ fi = 0
    /\ err = NoError
    /\ calls = <<>>

\* a struct of flat fields with one looker, pre-populated or not when the
\* looker returns no error, or with a map and two custom functions, the
\* first one for Duration or, a func(**Duration, string) error, for
\* *Duration; object 2 is a string for a non-nil *string to point at
InitFlat ==
    /\ decl \in FlatDecls
    /\ objType = <<T("S"), T("string")>>
    /\ in = RootArg
    /\ osenv = EmptyMap
    /\ \/ \E l \in Lookers :
             /\ options = <<l>>
             /\ \E pre \in IF l.errOn = {} THEN BOOLEAN ELSE {FALSE} :
                   heap \in InitHeaps(decl, objType, pre)
       \/ /\ \E m \in MapsOver({KB}) \cup
                         {{<<KA, <<"1">>>>, <<KB, <<"5", "s">>>>}} :
                \E f \in {durFn,
                           Fn(TRUE, 2, FALSE, 1, PtrTo(PtrTo(T("Duration"))),
                              T("string"), TRUE, "durPtrSetter")} :
                   options = <<OptMap(m), OptSetFunc(f), OptSetFunc(levelFn)>>
          /\ heap \in InitHeaps(decl, objType, FALSE)
    /\ InitCommon

\* a graph of structs: objects 1 and 2 are of type S, object 3 of type N
InitGraph ==
    /\ decl \in GraphDecls
    /\ objType = <<T("S"), T("S"), T("N")>>
    /\ heap \in InitHeaps(decl, objType, FALSE)
    /\ in = RootArg
    /\ osenv = EmptyMap
    /\ \E m \in GraphMaps : options = <<OptMap(m)>>
    /\ InitCommon

\* any list of options, on a good or a bad argument
InitOptions ==
    /\ decl \in OptionDecls
    /\ objType = <<T("S"), T("string")>>
    /\ heap \in InitHeaps(decl, objType, FALSE)
    /\ in \in {RootArg} \cup BadArgs
    /\ osenv \in OsEnvs
    /\ options \in SeqsUpTo(OptionMenu, MaxOptions)
    /\ InitCommon

Init == InitFlat \/ InitGraph \/ InitOptions

Spec == Init /\ [][Next]_vars

\* the calls on a struct of flat fields alone
SpecFlat == InitFlat /\ [][Next]_vars

\* the calls with any list of options
SpecOptions == InitOptions /\ [][Next]_vars

----------------------------------------------------------------------------
(* What the claims speak of *)

Failed == pc = "panic" \/ (pc = "done" /\ err # NoError)

\* the fields of the structs visited so far, as <<struct Value, index>>
Slots ==
    UNION {{<<st, i>> : i \in 1..Len(Fields(decl, st.typ.base))} : st \in prev}

Decl(sl) == Fields(decl, sl[1].typ.base)[sl[2]]
ValueAt(sl) == FieldOf(sl[1], sl[2], Decl(sl))
TagAt(sl) == parseTag(Decl(sl).tag)
Annotated(sl) == Len(TagAt(sl).key) # 0

\* the visitor has run on the field
Processed(sl) ==
    /\ (pc = "fields" /\ sl[1] = cur) => sl[2] < fi
    /\ (Failed /\ sl[1] = cur) => sl[2] <= fi

\* what the active source answers for the field's key
Answer(sl) == Lookup(config.looker, osenv, TagAt(sl).key)
Present(sl) == Answer(sl).e = "" /\ Answer(sl).val.ok
Absent(sl) == Answer(sl).e = "" /\ ~Answer(sl).val.ok

\* the type a value is coerced to: the field's, or its pointee's
Target(t) == IF Kind(t) = "ptr" THEN Elem(t) ELSE t

Builtin(t) == Kind(t) \in {"string", "int8", "uint8", "int64", "bool"}
Supported(t) ==
    Has(config.setFuncs, Target(t)) \/ HasSet(Target(t)) \/ Builtin(Target(t))

\* the coercion of string s to type t: the value a cell of type t (field x
\* of a testSetIface) that held old holds after its strategy ran on s
Coercion(t, s, old) ==
    IF Has(config.setFuncs, t) THEN NumVal(CallFn(Get(config.setFuncs, t), s).v)
    ELSE IF t = T("Level") THEN NumVal(levelSet(s).v)
    ELSE IF t = T("testSetIface") THEN NumVal(testSetIfaceSet(old.n, s).v)
    ELSE CASE Kind(t) = "string" -> StrVal(s)
           [] Kind(t) \in {"int8", "int64"} -> NumVal(ParseInt(s, Bits(t)).v)
           [] Kind(t) = "uint8" -> NumVal(ParseUint(s, Bits(t)).v)
           [] Kind(t) = "bool" -> NumVal(ParseBool(s).v)
           [] OTHER -> ZeroVal

\* the cell that holds the field's value, behind its pointer if it is one
Holder(sl) ==
    LET v == ValueAt(sl)
        a == IF Kind(v.typ) = "ptr" THEN heap[v.addr].p ELSE v.addr
    IN IF Target(v.typ) = T("testSetIface") THEN Append(a, 1) ELSE a

Before(p) == IF p \in DOMAIN heap0 THEN heap0[p] ELSE ZeroVal

Holds(sl, s) ==
    /\ Holder(sl) \in DOMAIN heap
    /\ heap[Holder(sl)] =
           Coercion(Target(ValueAt(sl).typ), s, Before(Holder(sl)))

\* the cells of the field itself
OwnCells(sl) == LeafPaths(decl, ValueAt(sl).typ, ValueAt(sl).addr)
Untouched(sl) == \A p \in OwnCells(sl) : heap[p] = heap0[p]

Eligible(sl) ==
    /\ Processed(sl)
    /\ Annotated(sl)
    /\ CanSet(ValueAt(sl))
    /\ Supported(ValueAt(sl).typ)

----------------------------------------------------------------------------
----------------------------------------------------------------------------
(* C2: a field whose tag has a key and no default, for which the source    *)
(* returns nothing, keeps the value it had before the call, and Unmarshal  *)
(* reports no error for it.                                                *)
C2_AbsentNoDefault ==
    \A sl \in Slots :
        (Annotated(sl) /\ ~TagAt(sl).defval.ok /\ Absent(sl)) =>
            /\ Untouched(sl)
            /\ ~(Failed /\ cur = sl[1] /\ fi = sl[2])

\* Unmarshal returned having passed over a pre-populated field
C2_Witness ==
    /\ pc = "done"
    /\ \E sl \in Slots :
          /\ Processed(sl) /\ Annotated(sl) /\ CanSet(ValueAt(sl))
          /\ Supported(ValueAt(sl).typ)
          /\ ~TagAt(sl).defval.ok /\ Absent(sl)
          /\ \E p \in OwnCells(sl) : heap[p] # ZeroVal

----------------------------------------------------------------------------
(* C3: called with an argument that is nil, no pointer, or a pointer to    *)
(* something other than a struct, Unmarshal returns the invalid-input      *)
(* error at once: no option is applied (a malformed SetFunc does not       *)
(* panic), no lookup is made and nothing is written.                       *)
C3_InvalidInput ==
    (in.p = <<>> \/ Kind(in.typ) # "ptr" \/ Kind(Elem(in.typ)) # "struct") =>
        /\ pc \in {"start", "done"}
        /\ pc = "done" => err = InvalidInput
        /\ options = options0
        /\ config = [looker |-> OsLooker, setFuncs |-> EmptyMap]
        /\ calls = <<>>
        /\ heap = heap0
        /\ visits = 0

\* Unmarshal refused its argument though a malformed SetFunc was passed
C3_Witness ==
    /\ pc = "done"
    /\ err = InvalidInput
    /\ in.typ = PtrTo(T("S"))
    /\ in.p = <<>>
    /\ \E i \in 1..Len(options0) :
          options0[i].opt = "SetFunc" /\ ~validateSetFunc(options0[i].fn).ok

----------------------------------------------------------------------------
(* The traversal of a graph of structs.  Unmarshal is one sequential loop: *)
(* whenever a step is possible it is taken.                                *)

SpecGraph == InitGraph /\ [][Next]_vars /\ WF_vars(Next)

\* the Value the traversal holds for the allocated struct o
Instance(o) == [typ |-> objType[o], addr |-> <<o>>, ro |-> FALSE]

\* exported pointer fields make objects 1 and 2 point at each other
Cycle ==
    \E i, j \in 1..Len(decl) :
        /\ decl[i].exported /\ decl[i].typ = PtrTo(T("S"))
        /\ decl[j].exported /\ decl[j].typ = PtrTo(T("S"))
        /\ heap0[<<1, i>>].p = <<2>>
        /\ heap0[<<2, j>>].p = <<1>>

\* the steps of the log that coerced a string into the field
Coercions(sl) ==
    {k \in DOMAIN calls :
        calls[k].op # "lookup" /\ calls[k].at = ValueAt(sl).addr}

\* the steps of the log that looked up the field's key
Lookups(sl) ==
    {k \in DOMAIN calls :
        calls[k].op = "lookup" /\ calls[k].at = ValueAt(sl).addr}

\* the string Unmarshal has for the field: the source's, else the default
Given(sl) == Resolve(Answer(sl).val, TagAt(sl).defval)

\* every annotated field of the struct o has been set, once
AllSet(o) ==
    /\ Instance(o) \in prev
    /\ \A i \in 1..Len(decl) :
          LET sl == <<Instance(o), i>> IN
          (Annotated(sl) /\ Given(sl).ok) =>
              /\ Holds(sl, Given(sl).s)
              /\ Cardinality(Coercions(sl)) = 1

(* C4: on every graph of structs, two structs that point at each other     *)
(* included, the traversal empties its queue and Unmarshal returns; when   *)
(* it returns without error from a cycle, the annotated fields of both     *)
(* structs of the cycle are set.                                           *)
C4_CycleTerminates ==
    <>(/\ pc = "done"
       /\ q = <<>> \/ err # NoError
       /\ (err = NoError /\ Cycle) => (AllSet(1) /\ AllSet(2)))

\* Unmarshal returned from a cycle with a field of each struct set
C4_Witness ==
    /\ pc = "done"
    /\ err = NoError
    /\ q = <<>>
    /\ Cycle
    /\ \E i \in 1..Len(decl) :
          /\ Annotated(<<Instance(1), i>>)
          /\ Coercions(<<Instance(1), i>>) # {}
          /\ Coercions(<<Instance(2), i>>) # {}
          /\ heap[<<1, i>>] # heap0[<<1, i>>]
          /\ heap[<<2, i>>] # heap0[<<2, i>>]

----------------------------------------------------------------------------
(* The struct instances the argument leads to, through nested structs and  *)
(* through pointers, exported or not.                                      *)

Kids(p) ==
    LET fs == Fields(decl, TypeAt(decl, objType, p).base) IN
    {Append(p, i) : i \in {j \in 1..Len(fs) : Kind(fs[j].typ) = "struct"}}
    \cup {heap[Append(p, i)].p :
            i \in {j \in 1..Len(fs) :
                      /\ Kind(fs[j].typ) = "ptr"
                      /\ Kind(Elem(fs[j].typ)) = "struct"
                      /\ heap[Append(p, j)].p # <<>>}}

RECURSIVE ReachFrom(_)
ReachFrom(ps) ==
    LET more == ps \cup UNION {Kids(p) : p \in ps} IN
    IF more = ps THEN ps ELSE ReachFrom(more)

Reachable == IF isStructPtr(in) THEN ReachFrom({in.p}) ELSE {}

\* the ways the traversal comes to the struct at p: as the argument, or
\* through a settable pointer field of a struct it visited
Ways(p) ==
    {sl \in Slots : /\ Kind(ValueAt(sl).typ) = "ptr"
                    /\ CanSet(ValueAt(sl))
                    /\ heap[ValueAt(sl).addr].p = p}
    \cup (IF in.p = p THEN {<<NoValue, 0>>} ELSE {})

(* C5: a struct instance is visited at most once in a call, however many   *)
(* pointers lead to it: no field is looked up twice or coerced twice, and  *)
(* the visits never outnumber the struct instances the argument leads to.  *)
C5_VisitedOnce ==
    /\ visits = Cardinality(prev)
    /\ \A s1, s2 \in prev : s1.addr = s2.addr => s1 = s2
    /\ LET all == Reachable IN
          {s.addr : s \in prev} \subseteq all /\ visits <= Cardinality(all)
    /\ \A sl \in Slots :
          Cardinality(Lookups(sl)) <= 1 /\ Cardinality(Coercions(sl)) <= 1
    /\ \A k \in DOMAIN calls :
          \E sl \in Slots : Annotated(sl) /\ calls[k].at = ValueAt(sl).addr

\* Unmarshal returned from a graph where two ways lead to a struct whose
\* field was looked up
C5_Witness ==
    /\ pc = "done"
    /\ err = NoError
    /\ visits >= 2
    /\ \E sl \in Slots :
          /\ Cardinality(Ways(sl[1].addr)) >= 2
          /\ Cardinality(Lookups(sl)) = 1
          /\ Cardinality(Coercions(sl)) = 1

----------------------------------------------------------------------------
(* C6: a field with a key that cannot be set makes Unmarshal return the    *)
(* unsettable-field error for that field, whatever the source returns for  *)
(* its key; it is never passed over in silence.                            *)
C6_UnsettableIsError ==
    \A sl \in Slots :
        (Processed(sl) /\ Annotated(sl) /\ ~CanSet(ValueAt(sl))) =>
            /\ pc = "done"
            /\ err.msg = "unsettable field"
            /\ err.field = Decl(sl).name

(* C7: a settable field with a key whose type has no custom function, no   *)
(* Set method and no builtin parser makes Unmarshal return the             *)
(* unsupported-type error naming the field.                                *)
C7_UnsupportedIsError ==
    \A sl \in Slots :
        (/\ Processed(sl) /\ Annotated(sl) /\ CanSet(ValueAt(sl))
         /\ ~Supported(ValueAt(sl).typ)) =>
            /\ pc = "done"
            /\ err.msg = "unsupported type"
            /\ err.typ = Target(ValueAt(sl).typ)
            /\ err.field = Decl(sl).name

(* C8: for a field with a key that is unsettable or of an unsupported      *)
(* type, the source is never asked for the key, and the error returned is  *)
(* the structural one even when the lookup would fail.                     *)
C8_StructuralBeforeLookup ==
    \A sl \in Slots :
        (/\ Annotated(sl)
         /\ ~CanSet(ValueAt(sl)) \/ ~Supported(ValueAt(sl).typ)) =>
            /\ Lookups(sl) = {}
            /\ (Failed /\ cur = sl[1] /\ fi = sl[2]) =>
                   err.msg \in {"unsettable field", "unsupported type"}

----------------------------------------------------------------------------
\* the strategy setValue is to pick for type t
Strategy(t) ==
    IF Has(config.setFuncs, t) THEN Get(config.setFuncs, t)
    ELSE IF HasSet(t) THEN "Set"
    ELSE CASE Kind(t) = "string" -> "string"
           [] Kind(t) \in {"int8", "int64"} -> "ParseInt"
           [] Kind(t) = "uint8" -> "ParseUint"
           [] Kind(t) = "bool" -> "ParseBool"
           [] OTHER -> "unsupported"

\* how many strategies could set a value of type t
Applicable(t) ==
    (IF Has(config.setFuncs, t) THEN 1 ELSE 0) + (IF HasSet(t) THEN 1 ELSE 0)
        + (IF Builtin(t) THEN 1 ELSE 0)

(* C9: a field is set by exactly one strategy: the custom function         *)
(* registered for its type if there is one, else the type's Set method if  *)
(* it has one, else the builtin parser of its kind.                        *)
C9_StrategyOrder ==
    \A sl \in Slots :
        (Eligible(sl) /\ Answer(sl).e = "" /\ Given(sl).ok) =>
            /\ Cardinality(Coercions(sl)) = 1
            /\ \A k \in Coercions(sl) :
                  /\ calls[k].op = Strategy(Target(ValueAt(sl).typ))
                  /\ calls[k].s = Given(sl).s
            /\ Has(config.setFuncs, Target(ValueAt(sl).typ)) =>
                  heap[Holder(sl)] =
                      NumVal(CallFn(Get(config.setFuncs,
                                        Target(ValueAt(sl).typ)),
                                    Given(sl).s).v)

\* Unmarshal returned having set, with their custom functions, a Level,
\* which has a Set method and a builtin kind besides, and a Duration
C9_Witness ==
    /\ pc = "done"
    /\ err = NoError
    /\ \E s1, s2 \in Slots :
          /\ ValueAt(s1).typ = T("Level")
          /\ Applicable(T("Level")) = 3
          /\ \E k \in Coercions(s1) : calls[k].op = "levelSetter"
          /\ heap[Holder(s1)] = NumVal(100 + Len(Given(s1).s))
          /\ ValueAt(s2).typ = T("Duration")
          /\ Applicable(T("Duration")) = 2
          /\ \E k \in Coercions(s2) : calls[k].op = "durSetter"
          /\ heap[Holder(s2)] = NumVal(5 * Second)

----------------------------------------------------------------------------
----------------------------------------------------------------------------
\* the error, if any, of coercing s to type t in a cell that held old
CoercionErr(t, s, old) ==
    IF Has(config.setFuncs, t) THEN CallFn(Get(config.setFuncs, t), s).e
    ELSE IF t = T("Level") THEN levelSet(s).e
    ELSE IF t = T("testSetIface") THEN testSetIfaceSet(old.n, s).e
    ELSE CASE Kind(t) = "string" -> ""
           [] Kind(t) \in {"int8", "int64"} -> ParseInt(s, Bits(t)).e
           [] Kind(t) = "uint8" -> ParseUint(s, Bits(t)).e
           [] Kind(t) = "bool" -> ParseBool(s).e
           [] OTHER -> "unsupported type"

\* the visitor returns an error on the field
Fails(sl) ==
    /\ Annotated(sl)
    /\ \/ Answer(sl).e # ""
       \/ /\ Given(sl).ok
          /\ \/ ~CanSet(ValueAt(sl))
             \/ CoercionErr(Target(ValueAt(sl).typ), Given(sl).s,
                            Before(Holder(sl))) # ""

\* the cells the visitor may have written for the fields it has run on
Written ==
    UNION {OwnCells(sl) \cup {Holder(sl)} :
              sl \in {s \in Slots : Processed(s) /\ Annotated(s)}}

\* the field of the struct at path p, as the traversal would come to it
SlotAt(p, i) ==
    <<[typ |-> TypeAt(decl, objType, p), addr |-> p, ro |-> FALSE], i>>

(* C11: Unmarshal stops at the first error and undoes nothing: the fields  *)
(* set before it keep the values they were set to, no field after the      *)
(* failing one is looked up or written, and the error returned is that of  *)
(* the first field that fails.                                             *)
C11_FailFast ==
    (err # NoError /\ err # InvalidInput) =>
        /\ pc = "done"
        /\ Fails(<<cur, fi>>)
        /\ err.field = Decl(<<cur, fi>>).name
        /\ err.struct = cur.typ.base
        /\ calls[Len(calls)].at = ValueAt(<<cur, fi>>).addr
        /\ \A sl \in Slots :
              /\ (Processed(sl) /\ sl # <<cur, fi>>) =>
                    /\ ~Fails(sl)
                    /\ (Annotated(sl) /\ Given(sl).ok) =>
                           Holds(sl, Given(sl).s)
              /\ ~Processed(sl) =>
                    Lookups(sl) = {} /\ Coercions(sl) = {} /\ Untouched(sl)
        /\ \A k \in DOMAIN calls :
              \E sl \in Slots : Processed(sl) /\ calls[k].at = ValueAt(sl).addr
        /\ \A p \in DOMAIN heap0 : heap[p] # heap0[p] => p \in Written

\* Unmarshal returned an error after it had set a field, leaving unvisited
\* a struct a field of which it would have set
C11_Witness ==
    /\ pc = "done"
    /\ err # NoError
    /\ \E sl \in Slots :
          /\ Processed(sl) /\ sl # <<cur, fi>>
          /\ Coercions(sl) # {} /\ ~Untouched(sl)
    /\ \E p \in Reachable :
          /\ \A st \in prev : st.addr # p
          /\ \E i \in 1..Len(Fields(decl, TypeAt(decl, objType, p).base)) :
                /\ Annotated(SlotAt(p, i))
                /\ Given(SlotAt(p, i)).ok
                /\ heap[Append(p, i)] = heap0[Append(p, i)]

----------------------------------------------------------------------------
\* the options that select the value source
SourceOpts == {"Looker", "Map", "DefaultsOnly"}

\* the places in the option list of the options that select a source
Sources == {i \in 1..Len(options0) : options0[i].opt \in SourceOpts}

\* the last option that selects a source is DefaultsOnly
DefaultsOnlyLast ==
    /\ Sources # {}
    /\ \E i \in Sources :
          options0[i].opt = "DefaultsOnly" /\ \A j \in Sources : j <= i

\* only the fields with a default have changed, each to its default
OnlyDefaults ==
    /\ \A sl \in Slots :
          Annotated(sl) =>
              /\ ~TagAt(sl).defval.ok => Untouched(sl)
              /\ (/\ Processed(sl) /\ TagAt(sl).defval.ok
                  /\ CanSet(ValueAt(sl)) /\ Supported(ValueAt(sl).typ)) =>
                     Holds(sl, TagAt(sl).defval.s)
    /\ \A p \in DOMAIN heap0 :
          heap[p] # heap0[p] =>
              \E sl \in Slots :
                  TagAt(sl).defval.ok /\ p \in OwnCells(sl) \cup {Holder(sl)}

(* C12 as stated: with DefaultsOnly anywhere among the options, only the   *)
(* fields whose tag carries a default change, each to the coercion of its  *)
(* default, whatever map is given beside it.                               *)
C12_DefaultsOnlyAnywhere ==
    (isStructPtr(in) /\ \E i \in Sources : options0[i].opt = "DefaultsOnly")
        => OnlyDefaults

(* C12, amended: with DefaultsOnly the last of the options that select a   *)
(* source, only the fields whose tag carries a default change, each to     *)
(* the coercion of its default, whatever map was given before it.          *)
C12_DefaultsOnlyLast ==
    (isStructPtr(in) /\ DefaultsOnlyLast) => OnlyDefaults

\* Unmarshal returned, DefaultsOnly given after a map that holds a value
\* for the key of a field without default: that field is as it was, and a
\* field with a default holds it
C12_Witness ==
    /\ pc = "done"
    /\ err = NoError
    /\ DefaultsOnlyLast
    /\ \E s1, s2 \in Slots, i \in Sources :
          /\ options0[i].opt = "Map"
          /\ Annotated(s1) /\ ~TagAt(s1).defval.ok
          /\ Has(options0[i].m, TagAt(s1).key)
          /\ Untouched(s1)
          /\ TagAt(s2).defval.ok
          /\ Holds(s2, TagAt(s2).defval.s)
          /\ ~Untouched(s2)

----------------------------------------------------------------------------
\* the greatest member of a non-empty set of numbers
Last(S) == CHOOSE i \in S : \A j \in S : j <= i

\* the source the last source-selecting option names, else the environment
LastSource ==
    IF Sources = {} THEN [src |-> "os", m |-> {}, errOn |-> {}]
    ELSE LET o == options0[Last(Sources)] IN
         CASE o.opt = "Map" -> [src |-> "map", m |-> o.m, errOn |-> {}]
           [] o.opt = "DefaultsOnly" -> [src |-> "map", m |-> {}, errOn |-> {}]
           [] o.opt = "Looker" ->
                [src |-> "func", m |-> o.m, errOn |-> o.errOn]

\* the places of the SetFunc options for type t
SetFuncsFor(t) ==
    {i \in 1..Len(options0) :
        /\ options0[i].opt = "SetFunc"
        /\ options0[i].fn.in0 = PtrTo(t)}

\* the types custom functions are given or registered for
FuncTypes ==
    {e[1] : e \in config.setFuncs}
    \cup {Elem(options0[i].fn.in0) :
            i \in {j \in 1..Len(options0) :
                      /\ options0[j].opt = "SetFunc"
                      /\ options0[j].fn.in0.ptr > 0}}

\* every option has been applied and the traversal has begun
Configured ==
    isStructPtr(in) /\ (pc \in {"visit", "fields", "done"} \/ prev # {})

(* C13: once the options are applied, in argument order, the source in     *)
(* use is the one of the last Map, DefaultsOnly or Looker option, taken    *)
(* whole and not merged with an earlier one, or the process environment    *)
(* when there is none; the custom function for a type is the one of the    *)
(* last SetFunc option for that type; the lookups of the traversal are     *)
(* answered by that source.                                                *)
C13_LastWins ==
    Configured =>
        /\ config.looker = LastSource
        /\ \A t \in FuncTypes :
              /\ Has(config.setFuncs, t) <=> SetFuncsFor(t) # {}
              /\ Has(config.setFuncs, t) =>
                    Get(config.setFuncs, t) =
                        options0[Last(SetFuncsFor(t))].fn.impl
        /\ \A sl \in Slots :
              (Processed(sl) /\ Annotated(sl) /\ Coercions(sl) # {}) =>
                  LET a == Lookup(LastSource, osenv, TagAt(sl).key) IN
                  \A k \in Coercions(sl) :
                      calls[k].s = IF a.val.ok THEN a.val.s
                                   ELSE TagAt(sl).defval.s

\* Unmarshal returned after two maps were given: a field whose key only
\* the first map holds took its default, a field whose key the last map
\* holds took that value
C13_Witness ==
    /\ pc = "done"
    /\ err = NoError
    /\ Len(options0) = 2
    /\ options0[1].opt = "Map" /\ options0[2].opt = "Map"
    /\ \E s1, s2 \in Slots :
          /\ Has(options0[1].m, TagAt(s1).key)
          /\ ~Has(options0[2].m, TagAt(s1).key)
          /\ Holds(s1, TagAt(s1).defval.s)
          /\ Get(options0[1].m, TagAt(s1).key) # TagAt(s1).defval.s
          /\ Has(options0[2].m, TagAt(s2).key)
          /\ Holds(s2, Get(options0[2].m, TagAt(s2).key))
          /\ ~Untouched(s1) /\ ~Untouched(s2)

----------------------------------------------------------------------------
(* parseTag on its own, on every tag of up to MaxTagLen characters drawn   *)
(* from a key letter, a default letter and the separator.                  *)

MaxTagLen == 4

TagChars == {"a", "d", tagSep}

InitTag ==
    /\ rawTag \in SeqsUpTo(TagChars, MaxTagLen)
    /\ tagOut = NoTag
    /\ decl = <<>>
    /\ objType = <<>>
    /\ heap = <<>>
    /\ heap0 = <<>>
    /\ options = <<>>
    /\ options0 = <<>>
    /\ in = [typ |-> NoType, p |-> <<>>]
    /\ osenv = EmptyMap
    /\ visits = 0
    /\ pc = "tag"
    /\ config = [looker |-> OsLooker, setFuncs |-> EmptyMap]
    /\ q = <<>>
    /\ prev = {}
    /\ cur = NoValue
    /\ fi = 0
    /\ err = NoError
    /\ calls = <<>>

\* key, defval := parseTag(c)
ParseTag ==
    /\ pc = "tag"
    /\ ~tagOut.done
    /\ tagOut' = [done |-> TRUE, key |-> parseTag(rawTag).key,
                  defval |-> parseTag(rawTag).defval]
    /\ UNCHANGED <<decl, heap0, options0, in, osenv, rawTag, objType, heap,
                   visits, options, config, pc, q, prev, cur, fi, err, calls>>

SpecTag == InitTag /\ [][ParseTag]_vars

\* the tag holds a separator
HasSep(s) == \E i \in 1..Len(s) : s[i] = tagSep

(* C14: parseTag splits a tag at its first separator only.  Without        *)
(* separator the key is the whole tag and there is no default; otherwise   *)
(* the key holds no separator, the default is all that follows it,         *)
(* further separators included, and key, separator and default put         *)
(* together are the tag.  Every tag is parsed.                             *)
C14_SplitAtFirst ==
    /\ (pc = "tag" /\ ~tagOut.done) => ENABLED ParseTag
    /\ tagOut.done =>
          /\ ~HasSep(rawTag) => (tagOut.key = rawTag /\ ~tagOut.defval.ok)
          /\ HasSep(rawTag) =>
                /\ ~HasSep(tagOut.key)
                /\ tagOut.defval.ok
                /\ tagOut.key \o <<tagSep>> \o tagOut.defval.s = rawTag

\* parseTag returned a key and a default that holds a separator
C14_Witness ==
    /\ tagOut.done
    /\ tagOut.key = <<"a">>
    /\ tagOut.defval.ok
    /\ HasSep(tagOut.defval.s)
    /\ Len(rawTag) = MaxTagLen

----------------------------------------------------------------------------
\* no field of the struct type b has a key in its tag
NoKeys(b) ==
    \A i \in 1..Len(Fields(decl, b)) :
        Len(parseTag(Fields(decl, b)[i].tag).key) = 0

----------------------------------------------------------------------------
\* the field is a pointer to a struct, has no key and was nil before the call
NilStructPtr(sl) ==
    /\ Kind(ValueAt(sl).typ) = "ptr"
    /\ Kind(Elem(ValueAt(sl).typ)) = "struct"
    /\ ~Annotated(sl)
    /\ Before(ValueAt(sl).addr).p = <<>>

\* the string Unmarshal would have for field i of the struct type b
GivenIn(b, i) ==
    LET tag == parseTag(Fields(decl, b)[i].tag) IN
    IF Len(tag.key) = 0 THEN NilStr
    ELSE Resolve(Lookup(config.looker, osenv, tag.key).val, tag.defval)

(* C16, as stated: after a successful call a settable pointer field that   *)
(* was nil, whose struct type has a field with a key and a resolved value, *)
(* points at a struct in which that field is set; one whose struct type    *)
(* has no field with a key, nested structs included, is still nil.         *)
C16_NilPointerAllocated ==
    (pc = "done" /\ err = NoError) =>
        \A sl \in Slots :
            (NilStructPtr(sl) /\ CanSet(ValueAt(sl))) =>
                LET b == Elem(ValueAt(sl).typ).base
                    fs == Fields(decl, b)
                    p == heap[ValueAt(sl).addr].p
                    inner == {Target(fs[i].typ).base : i \in 1..Len(fs)}
                IN /\ (\E i \in 1..Len(fs) : GivenIn(b, i).ok) =>
                         /\ p # <<>>
                         /\ \A i \in 1..Len(fs) :
                               GivenIn(b, i).ok =>
                                   heap[Append(p, i)] =
                                       Coercion(Target(fs[i].typ),
                                                GivenIn(b, i).s, ZeroVal)
                   /\ (\A c \in ({b} \cup inner) \cap StructBases : NoKeys(c))
                         => p = <<>>

(* C16, amended: a pointer to a struct that has no key of its own and was  *)
(* nil before the call is nil throughout it, whether or not its struct     *)
(* type has fields with keys and resolved values; when no pointer field    *)
(* with a key has been met, nothing has been allocated.                    *)
C16_NilPointerStaysNil ==
    /\ \A sl \in Slots :
          NilStructPtr(sl) => heap[ValueAt(sl).addr].p = <<>>
    /\ (\A sl \in Slots : Kind(ValueAt(sl).typ) = "ptr" => ~Annotated(sl)) =>
          DOMAIN heap = DOMAIN heap0

\* Unmarshal returned without error, having set a field, from a struct
\* with a settable nil pointer to a struct whose field has a key the map
\* holds; the pointer is still nil
C16_Witness ==
    /\ pc = "done"
    /\ err = NoError
    /\ \E s1, s2 \in Slots :
          /\ NilStructPtr(s1) /\ CanSet(ValueAt(s1)) /\ Processed(s1)
          /\ heap[ValueAt(s1).addr].p = <<>>
          /\ LET b == Elem(ValueAt(s1).typ).base IN
             \E i \in 1..Len(Fields(decl, b)) :
                 /\ GivenIn(b, i).ok
                 /\ Lookup(config.looker, osenv,
                           parseTag(Fields(decl, b)[i].tag).key).val.ok
          /\ Coercions(s2) # {} /\ ~Untouched(s2)

----------------------------------------------------------------------------
(* C17: after a successful call every pointer to a struct that has no key  *)
(* and was nil is nil, also when the source holds the keys of its struct   *)
(* type's fields; the traversal allocates nothing to descend: each cell    *)
(* that did not exist before the call belongs to an object that a pointer  *)
(* field with a key, which the visitor has run on, points at.              *)
C17_NoAllocToDescend ==
    /\ (pc = "done" /\ err = NoError) =>
          \A sl \in Slots :
              NilStructPtr(sl) =>
                  /\ heap[ValueAt(sl).addr] = ZeroVal
                  /\ Lookups(sl) = {} /\ Coercions(sl) = {}
    /\ \A c \in DOMAIN heap \ DOMAIN heap0 :
          \E sl \in Slots :
              /\ Kind(ValueAt(sl).typ) = "ptr"
              /\ Annotated(sl) /\ Processed(sl)
              /\ heap[ValueAt(sl).addr].p = <<c[1]>>

\* Unmarshal returned without error having set the field X of a struct N
\* nested by value from the map, and left nil a pointer to an N
C17_Witness ==
    /\ pc = "done"
    /\ err = NoError
    /\ \E s1, s2 \in Slots :
          /\ NilStructPtr(s1) /\ CanSet(ValueAt(s1))
          /\ ValueAt(s1).typ = PtrTo(T("N"))
          /\ heap[ValueAt(s1).addr].p = <<>>
          /\ s2[1].typ = T("N") /\ Present(s2)
          /\ Holds(s2, Answer(s2).val.s) /\ ~Untouched(s2)

----------------------------------------------------------------------------
----------------------------------------------------------------------------
(* The structs the traversal is to visit: those the argument leads to      *)
(* through exported fields, nested by value or behind non-nil pointers.    *)

ExportedKids(p) ==
    LET fs == Fields(decl, TypeAt(decl, objType, p).base) IN
    {Append(p, i) :
        i \in {j \in 1..Len(fs) :
                  fs[j].exported /\ Kind(fs[j].typ) = "struct"}}
    \cup {heap[Append(p, i)].p :
            i \in {j \in 1..Len(fs) :
                      /\ fs[j].exported
                      /\ Kind(fs[j].typ) = "ptr"
                      /\ Kind(Elem(fs[j].typ)) = "struct"
                      /\ heap[Append(p, j)].p # <<>>}}

RECURSIVE ReachExported(_)
ReachExported(ps) ==
    LET more == ps \cup UNION {ExportedKids(p) : p \in ps} IN
    IF more = ps THEN ps ELSE ReachExported(more)

(* C19: when Unmarshal returns without error, every struct nested by value *)
(* in an exported field or held behind a non-nil exported pointer, at any  *)
(* depth below the argument, has been visited, and each of its fields with *)
(* a key was looked up once, by that key, and is set as a field of the     *)
(* root is: to the coercion of what the configured source holds for the    *)
(* key, else of the tag's default, and left alone when there is neither.   *)
C19_NestedSameSource ==
    (pc = "done" /\ err = NoError) =>
        \A p \in ReachExported({in.p}) :
            /\ SlotAt(p, 1)[1] \in prev
            /\ \A i \in 1..Len(Fields(decl, TypeAt(decl, objType, p).base)) :
                  LET sl == SlotAt(p, i) IN
                  Annotated(sl) =>
                      /\ Cardinality(Lookups(sl)) = 1
                      /\ \A k \in Lookups(sl) : calls[k].s = TagAt(sl).key
                      /\ Given(sl).ok => Holds(sl, Given(sl).s)
                      /\ ~Given(sl).ok => Untouched(sl)

\* Unmarshal returned without error having set from the map the field X
\* of an N nested in an M nested in the root, and of an N behind a pointer
C19_Witness ==
    /\ pc = "done"
    /\ err = NoError
    /\ \E s1, s2 \in Slots :
          /\ Len(s1[1].addr) = 3 /\ s1[1].typ = T("N")
          /\ Len(s2[1].addr) = 1 /\ s2[1].typ = T("N")
          /\ Present(s1) /\ Holds(s1, Answer(s1).val.s) /\ ~Untouched(s1)
          /\ Present(s2) /\ Holds(s2, Answer(s2).val.s) /\ ~Untouched(s2)
          /\ Answer(s1).val.s # TagAt(s1).defval.s

----------------------------------------------------------------------------
(* C20: a struct the argument leads to only through an unexported field,   *)
(* at any depth below it, is not traversed: it is never visited, none of   *)
(* its fields is looked up or coerced, its cells keep their values, their  *)
(* defaults unused, and no error names it.  When the fields with keys all  *)
(* lie in such structs Unmarshal calls no source, writes nothing and       *)
(* returns no error.                                                       *)
C20_UnexportedNotTraversed ==
    isStructPtr(in) =>
        LET open == ReachExported({in.p}) IN
        /\ \A p \in Reachable \ open :
              /\ \A st \in prev : st.addr # p
              /\ ~(Failed /\ cur.addr = p)
              /\ \A i \in 1..Len(Fields(decl, TypeAt(decl, objType, p).base)) :
                    LET sl == SlotAt(p, i) IN
                    /\ Lookups(sl) = {}
                    /\ Coercions(sl) = {}
                    /\ Kind(ValueAt(sl).typ) # "struct" => Untouched(sl)
        /\ (\A p \in open : NoKeys(TypeAt(decl, objType, p).base)) =>
              calls = <<>> /\ heap = heap0 /\ err = NoError

\* Unmarshal returned without error having set from the map the X of an
\* exported N, while the M in an unexported field keeps a zero Z, whose tag
\* has a default, and a zero In.X, whose key the map holds
C20_Witness ==
    /\ pc = "done"
    /\ err = NoError
    /\ \E i, j \in 1..Len(decl) :
          /\ ~decl[i].exported /\ decl[i].typ = T("M")
          /\ <<1, i, 1>> \in Reachable \ ReachExported({in.p})
          /\ Has(config.looker.m, KB)
          /\ heap[<<1, i, 1, 1>>] = ZeroVal
          /\ heap[<<1, i, 2>>] = ZeroVal
          /\ decl[j].exported /\ decl[j].typ = T("N")
          /\ heap[<<1, j, 1>>] = NumVal(7)

----------------------------------------------------------------------------
(* C21: an error returned for a field carries the name of the struct type, *)
(* the name of the field and the kind of the field, and, when it is the    *)
(* error of a lookup or of a coercion, the key that was looked up.  The    *)
(* error is rendered from its message, the string strconv quotes, the type *)
(* an unsupported-type error prints, and the three names: the key is       *)
(* carried when it is the quoted string.                                   *)
C21_ErrorNamesKey ==
    (err # NoError /\ err # InvalidInput) =>
        LET sl == <<cur, fi>> IN
        /\ err.struct = cur.typ.base
        /\ err.field = Decl(sl).name
        /\ err.kind = Kind(Decl(sl).typ)
        /\ err.msg \notin {"unsettable field", "unsupported type"} =>
              err.num = TagAt(sl).key

----------------------------------------------------------------------------
(* The builtin coercions on their own: one exported field S.F1 of a        *)
(* builtin type with the key "b", zero or pre-populated, and a map that    *)
(* holds for "b" any string of up to MaxNumLen characters made of a sign,  *)
(* digits and a letter.                                                    *)

MaxNumLen == 4

InitNum ==
    /\ \E t \in {T("int8"), T("uint8"), T("bool")} :
          decl = Declare(<<D(TRUE, KB, t)>>)
    /\ objType = <<T("S"), T("string")>>
    /\ \E pre \in BOOLEAN : heap \in InitHeaps(decl, objType, pre)
    /\ in = RootArg
    /\ osenv = EmptyMap
    /\ \E s \in SeqsUpTo({"-", "1", "2", "5", "8", "x"}, MaxNumLen) :
          options = <<OptMap({<<KB, s>>})>>
    /\ InitCommon

SpecNum == InitNum /\ [][Next]_vars

(* C22: the builtin integer coercions are sized to the field.  For an int8 *)
(* field a string that is no decimal numeral, and for a uint8 field one    *)
(* that is not all digits, a negative number included, gives an error that *)
(* names the string and the field; a numeral outside -128..127, or outside *)
(* 0..255 for uint8, gives a range error, never a silent success; a        *)
(* numeral inside the range is stored without error.                       *)
C22_SizedIntegers ==
    (pc = "done" /\ Kind(decl[1].typ) \in {"int8", "uint8"}) =>
        LET s == Get(config.looker.m, KB)
            signed == Kind(decl[1].typ) = "int8"
            neg == s # <<>> /\ s[1] = "-"
            body == IF signed /\ s # <<>> /\ s[1] \in {"+", "-"}
                    THEN Tail(s) ELSE s
            n == IF neg THEN 0 - DecVal(body) ELSE DecVal(body)
            lo == IF signed THEN 0 - 128 ELSE 0
            hi == IF signed THEN 127 ELSE 255
            fn == IF signed THEN "strconv.ParseInt" ELSE "strconv.ParseUint"
            named == /\ err.num = s
                     /\ err.field = "F1" /\ err.struct = "S"
                     /\ err.kind = Kind(decl[1].typ)
        IN IF ~AllDigits(body)
           THEN err.msg = fn \o ": invalid syntax" /\ named
           ELSE IF n < lo \/ n > hi
           THEN /\ err.msg = fn \o ": value out of range" /\ named
                /\ heap[<<1, 1>>].n \in {lo, hi}
           ELSE err = NoError /\ heap[<<1, 1>>] = NumVal(n)

\* Unmarshal returned a range error for "128" on an int8 field
C22_Witness ==
    /\ pc = "done"
    /\ decl[1].typ = T("int8")
    /\ Get(config.looker.m, KB) = <<"1", "2", "8">>
    /\ err.msg = "strconv.ParseInt: value out of range"
    /\ err.num = <<"1", "2", "8">>
    /\ calls # <<>>

----------------------------------------------------------------------------
(* C23: a SetFunc option whose argument is not a function, or not one of   *)
(* two inputs, a pointer and a string, not variadic, with one result that  *)
(* is an error, makes Unmarshal panic when the option is applied, the      *)
(* options before it having been applied: with a valid argument Unmarshal  *)
(* never returns, and nothing is visited, looked up or written.            *)
C23_BadSetFuncPanics ==
    LET bad == {i \in 1..Len(options0) :
                   /\ options0[i].opt = "SetFunc"
                   /\ ~(/\ options0[i].fn.isFunc
                        /\ options0[i].fn.numIn = 2
                        /\ ~options0[i].fn.variadic
                        /\ options0[i].fn.numOut = 1
                        /\ Kind(options0[i].fn.in0) = "ptr"
                        /\ options0[i].fn.in1 = T("string")
                        /\ options0[i].fn.outErr)}
        applied == Len(options0) - Len(options)
    IN (isStructPtr(in) /\ bad # {}) =>
          /\ pc \in {"start", "options", "panic"}
          /\ err = NoError
          /\ calls = <<>> /\ heap = heap0 /\ visits = 0 /\ prev = {}
          /\ pc = "options" => \A i \in bad : applied < i
          /\ pc = "panic" => applied \in bad /\ \A i \in bad : applied <= i
          /\ (pc = "options" /\ applied + 1 \in bad) => ENABLED ApplyOption

\* Unmarshal panicked on a func(x *int, y int) error after it had applied
\* a Map option
C23_Witness ==
    /\ pc = "panic"
    /\ in = RootArg
    /\ Len(options0) = 2
    /\ options0[1].opt = "Map"
    /\ config.looker = Map(options0[1])
    /\ options0[2].opt = "SetFunc"
    /\ options0[2].fn.in1 = T("int8")
    /\ calls = <<>>

----------------------------------------------------------------------------
(* The order of the traversal, on graphs of structs whose enclosing struct *)
(* may hold a field that fails beside a nested struct whose field fails.   *)

InitOrder ==
    /\ decl \in {Declare(ds) :
                   ds \in SeqsUpTo(GraphMenu \cup {D(TRUE, KB, T("int8"))},
                                   MaxFields)}
    /\ objType = <<T("S"), T("S"), T("N")>>
    /\ heap \in InitHeaps(decl, objType, FALSE)
    /\ in = RootArg
    /\ osenv = EmptyMap
    /\ \E m \in GraphMaps : options = <<OptMap(m)>>
    /\ InitCommon

SpecOrder == InitOrder /\ [][Next]_vars

(* C24: the traversal is breadth-first in declaration order: the keys are  *)
(* looked up struct by struct, the fields of a struct in the order they    *)
(* are declared and all of them before any field of a struct it nests or   *)
(* points at, the nested structs in the order of the fields that hold      *)
(* them.  So when a field of a nested struct and a field of the enclosing  *)
(* struct declared after the nesting field both fail, the error returned   *)
(* is that of the enclosing struct's field.                                *)
C24_BreadthFirst ==
    LET fields(p) == Fields(decl, TypeAt(decl, objType, p).base)
        idx(p) == [i \in 1..Len(fields(p)) |-> i]
        holds(p, i) ==
            /\ fields(p)[i].exported
            /\ \/ Kind(fields(p)[i].typ) = "struct"
               \/ /\ Kind(fields(p)[i].typ) = "ptr"
                  /\ Kind(Elem(fields(p)[i].typ)) = "struct"
                  /\ heap0[Append(p, i)].p # <<>>
        nested(p) ==
            LET is == SelectSeq(idx(p), LAMBDA i : holds(p, i)) IN
            [k \in 1..Len(is) |->
                IF Kind(fields(p)[is[k]].typ) = "struct"
                THEN Append(p, is[k]) ELSE heap0[Append(p, is[k])].p]
        keyed(p) ==
            LET is == SelectSeq(idx(p),
                        LAMBDA i : Len(parseTag(fields(p)[i].tag).key) # 0)
            IN [k \in 1..Len(is) |-> Append(p, is[k])]
        RECURSIVE order(_, _)
        order(todo, seen) ==
            IF todo = <<>> THEN <<>>
            ELSE IF Head(todo) \in seen THEN order(Tail(todo), seen)
            ELSE keyed(Head(todo))
                    \o order(Tail(todo) \o nested(Head(todo)),
                             seen \cup {Head(todo)})
        expected == order(<<in.p>>, {})
        looked == SelectSeq(calls, LAMBDA c : c.op = "lookup")
        n == Len(looked)
        slot(a) == SlotAt(SubSeq(a, 1, Len(a) - 1), a[Len(a)])
    IN isStructPtr(in) =>
          /\ n <= Len(expected)
          /\ \A k \in 1..n : looked[k].at = expected[k]
          /\ (pc = "done" /\ err = NoError) => n = Len(expected)
          /\ (pc = "done" /\ err # NoError) =>
                /\ n >= 1
                /\ err.struct = slot(expected[n])[1].typ.base
                /\ err.field = Decl(slot(expected[n])).name
                /\ Fails(slot(expected[n]))
                /\ \A k \in 1..(n - 1) : ~Fails(slot(expected[k]))

\* F1 nests a struct N whose field X would fail on "5s", and F2 of the
\* enclosing struct, declared after F1, fails on it too: the error is F2's
C24_Witness ==
    /\ pc = "done"
    /\ err # NoError
    /\ Len(decl) = 2
    /\ decl[1].typ = T("N")
    /\ decl[2].typ = T("int8")
    /\ err.struct = "S" /\ err.field = "F2"
    /\ Fails(SlotAt(<<1, 1>>, 1))
    /\ heap[<<1, 1, 1>>] = heap0[<<1, 1, 1>>]

----------------------------------------------------------------------------
----------------------------------------------------------------------------
----------------------------------------------------------------------------
(* C27: a pointer field with a key that is nil before the call is given a  *)
(* pointee exactly when a value is resolved for it, from the source or     *)
(* from its default: it stays nil when the source has none and the tag     *)
(* carries no default, and it is not nil once a value is resolved, even if *)
(* the coercion then fails.                                                *)
C27_AllocatedIffResolved ==
    \A sl \in Slots :
        (/\ Processed(sl) /\ Annotated(sl)
         /\ Kind(ValueAt(sl).typ) = "ptr"
         /\ heap0[ValueAt(sl).addr].p = <<>>) =>
            (heap[ValueAt(sl).addr].p # <<>>
                <=> (Answer(sl).e = "" /\ Given(sl).ok))


----------------------------------------------------------------------------
(* C28: called with a pointer to a struct and options that are well formed *)
(* Unmarshal never panics: whatever the fields, unexported nil pointer     *)
(* fields with a key included, it ends by returning nil or an error.       *)
C28_NeverPanics ==
    (/\ isStructPtr(in)
     /\ \A i \in 1..Len(options0) :
           options0[i].opt = "SetFunc" => validateSetFunc(options0[i].fn).ok)
        => /\ pc # "panic"
           /\ \A sl \in Slots :
                 (/\ Processed(sl) /\ Annotated(sl) /\ ~CanSet(ValueAt(sl))
                  /\ Answer(sl).e = "" /\ Given(sl).ok) =>
                     (pc = "done" /\ err.msg = "unsettable field")

====
